---------------------------- MODULE Spec2Model ----------------------------
(***************************************************************************)
(* A model of the MPN matcher (src/app.py, the Streamlit web edition, and  *)
(* src/debug.py, the Tk desktop edition): the invoice parser, the OCR      *)
(* candidate filter and deduper, the similarity scorer, the tier           *)
(* classification and the per-photo loop of both editions.                 *)
(*                                                                         *)
(* Conventions.  A Python str is a sequence of one-character strings.      *)
(* Python indices are 0-based: s[i] of the code is s[i + 1] here.  A float *)
(* percentage is a fixed-point number in hundredths of a percent           *)
(* (100.0 is 10000); an OCR confidence is in hundredths (0.3 is 30).       *)
(***************************************************************************)
EXTENDS Integers, Sequences, FiniteSets, TLC

VARIABLES
    pc,              \* position of the operation under study
    text,            \* parser: the document text, a sequence of lines
    invoices,        \* parser: the records returned
    po,              \* parser: what parse_po_from_date_line returned
    raw,             \* OCR: what ocr_model.ocr returned for the image
    min_length,      \* OCR: parameter min_length
    conf_threshold,  \* OCR: parameter conf_threshold
    out,             \* OCR: the list returned
    target,          \* scorer: first argument of match_ratio
    candidate,       \* scorer: second argument of match_ratio
    ratio,           \* scorer: the value returned
    site,            \* "web" (src/app.py) or "desktop" (src/debug.py)
    best,            \* classification: the best score of one image
    rounded,         \* classification: the score the tier is decided on
    tier,            \* classification: the background colour chosen
    mpn,             \* photo loop: the target MPN
    n_imgs,          \* photo loop: number of photos of the batch
    i_img,           \* photo loop: index of the next photo
    results,         \* photo loop: the results so far, one per photo handled
    ocr_failed,      \* photo loop (ghost): for each photo reached, did OCR raise
    cands,           \* photo loop (ghost): the candidates of the last photo handled
    invoice_lines,   \* GUI: self.invoice_lines
    selected_line,   \* GUI: self.selected_line, <<>> for None, <<record>> otherwise
    combo_values,    \* GUI: number of options of line_combo
    combo_state,     \* GUI: state of line_combo, "disabled" or "readonly"
    manual_mpn_var,  \* GUI: the text of the manual MPN entry
    photo_paths,     \* GUI: self.photo_paths
    processing_index,    \* GUI: self._processing_index, -1 while the attribute is not set
    processing_overlay,  \* GUI: "unset" while self._processing_overlay does not exist, else "shown"
    orphan_overlay,  \* GUI: an overlay window no attribute refers to is on screen
    pending,         \* GUI: number of _process_next_slot callbacks scheduled by after()
    shown,           \* GUI: the photo slots that show a result
    target_mpn,      \* GUI: target_mpn of the last slot processed
    callback_error,  \* GUI: what the last _process_next_slot run raised, "none" if nothing
    handled,         \* GUI (ghost): slots processed since load_photos last accepted photos
    runs,            \* GUI (ghost): runs of _process_next_slot since then
    since_accept     \* GUI (ghost): "acted" once the user acted after that load_photos,
                     \* else "idle" / "busy": was a callback pending when it accepted

vars == <<pc, text, invoices, po, raw, min_length, conf_threshold, out, target,
          candidate, ratio, site, best, rounded, tier, mpn, n_imgs, i_img, results,
          ocr_failed, cands, invoice_lines, selected_line, combo_values,
          combo_state, manual_mpn_var, photo_paths, processing_index,
          processing_overlay, orphan_overlay, pending, shown, target_mpn,
          callback_error, handled, runs, since_accept>>

parserVars == <<text, invoices, po>>
ocrVars    == <<raw, min_length, conf_threshold, out>>
scoreVars  == <<target, candidate, ratio>>
tierVars   == <<best, rounded, tier>>
loopVars   == <<mpn, n_imgs, i_img, results, ocr_failed, cands>>
guiVars    == <<invoice_lines, selected_line, combo_values, combo_state,
                manual_mpn_var, photo_paths, processing_index, processing_overlay,
                orphan_overlay, pending, shown, target_mpn, callback_error,
                handled, runs, since_accept>>

ParserIdle == text = <<>> /\ invoices = <<>> /\ po = ""
OcrIdle    == raw = <<>> /\ min_length = 2 /\ conf_threshold = 30 /\ out = <<>>
ScoreIdle  == target = <<>> /\ candidate = <<>> /\ ratio = 0
TierIdle   == best = 0 /\ rounded = 0 /\ tier = "none"
LoopIdle   == /\ mpn = <<>> /\ n_imgs = 0 /\ i_img = 0 /\ results = <<>>
              /\ ocr_failed = <<>> /\ cands = <<>>

\* The window as MatcherGUI.__init__ leaves it.
GuiIdle ==
    /\ invoice_lines = <<>>
    /\ selected_line = <<>>
    /\ combo_values = 0
    /\ combo_state = "disabled"
    /\ manual_mpn_var = ""
    /\ photo_paths = <<>>
    /\ processing_index = -1
    /\ processing_overlay = "unset"
    /\ orphan_overlay = FALSE
    /\ pending = 0
    /\ shown = {}
    /\ target_mpn = ""
    /\ callback_error = "none"
    /\ handled = <<>>
    /\ runs = 0
    /\ since_accept = "acted"

-----------------------------------------------------------------------------
(* Bounds of the scorer's inputs. *)

MaxTargetLen == 3
MaxCandidateLen == 4

-----------------------------------------------------------------------------
(* Python built-ins. *)

Min2(x, y) == IF x <= y THEN x ELSE y
Max2(x, y) == IF x >= y THEN x ELSE y

\* s[lo:hi] with 0 <= lo, hi: the elements lo .. hi-1, clipped at len(s).
Slice(s, lo, hi) ==
    LET h == Min2(hi, Len(s))
    IN  IF lo >= h THEN <<>> ELSE [k \in 1..(h - lo) |-> s[lo + k]]

\* All sequences over S of length lo .. hi.
SeqsOf(S, lo, hi) == UNION {[1..n -> S] : n \in lo..hi}

\* The characters of the part numbers scored.
ScoreAlphabet == {"A", "B", "1"}

-----------------------------------------------------------------------------
(* difflib.SequenceMatcher(None, a, b), as documented: find_longest_match   *)
(* returns the longest block a[i:i+k] == b[j:j+k] within the given ranges,  *)
(* of those the one starting earliest in a, and of those the one starting   *)
(* earliest in b; (alo, blo, 0) when nothing matches.  No element is junk   *)
(* (isjunk is None), and the autojunk heuristic only acts when len(b) is at *)
(* least 200.                                                               *)

MatchingBlocksIn(a, b, alo, ahi, blo, bhi) ==
    {m \in [i : alo..(ahi - 1), j : blo..(bhi - 1), k : 1..Min2(ahi - alo, bhi - blo)] :
        /\ m.i + m.k <= ahi
        /\ m.j + m.k <= bhi
        /\ \A d \in 1..m.k : a[m.i + d] = b[m.j + d]}

FindLongestMatch(a, b, alo, ahi, blo, bhi) ==
    LET ms == MatchingBlocksIn(a, b, alo, ahi, blo, bhi)
    IN  IF ms = {} THEN [i |-> alo, j |-> blo, k |-> 0]
        ELSE CHOOSE m \in ms :
                \A o \in ms :
                    \/ m.k > o.k
                    \/ m.k = o.k /\ m.i < o.i
                    \/ m.k = o.k /\ m.i = o.i /\ m.j <= o.j

\* sum(block.size for block in get_matching_blocks()[:-1]): the longest match,
\* then the matches of the pieces left of it and right of it.  The last block
\* of get_matching_blocks() is the sentinel (len(a), len(b), 0).
RECURSIVE MatchedSize(_, _, _, _, _, _)
MatchedSize(a, b, alo, ahi, blo, bhi) ==
    LET m == FindLongestMatch(a, b, alo, ahi, blo, bhi)
    IN  IF m.k = 0 THEN 0
        ELSE m.k
             + (IF alo < m.i /\ blo < m.j
                   THEN MatchedSize(a, b, alo, m.i, blo, m.j) ELSE 0)
             + (IF m.i + m.k < ahi /\ m.j + m.k < bhi
                   THEN MatchedSize(a, b, m.i + m.k, ahi, m.j + m.k, bhi) ELSE 0)

\* A mutant of match_ratio: the denominator is the longer of the two strings.
MatchRatioLongerDenominator(a, b) ==
    (MatchedSize(a, b, 0, Len(a), 0, Len(b)) * 10000) \div Max2(Max2(Len(a), Len(b)), 1)

\* A mutant of match_ratio: the denominator is the candidate's length.
MatchRatioCandidateDenominator(a, b) ==
    (MatchedSize(a, b, 0, Len(a), 0, Len(b)) * 10000) \div Max2(Len(b), 1)

\* match_ratio(a, b): (matched / max(len(a), 1)) * 100, in hundredths of a percent.
MatchRatio(a, b) ==
    (MatchedSize(a, b, 0, Len(a), 0, Len(b)) * 10000) \div Max2(Len(a), 1)

-----------------------------------------------------------------------------
(* The scorer on its own: match_ratio applied to a target and a candidate. *)

ScoreInit ==
    /\ pc = "score_start"
    /\ target \in SeqsOf(ScoreAlphabet, 0, MaxTargetLen)
    /\ candidate \in SeqsOf(ScoreAlphabet, 0, MaxCandidateLen)
    /\ ratio = 0
    /\ ParserIdle /\ OcrIdle /\ TierIdle /\ LoopIdle /\ GuiIdle /\ site = "web"

CallMatchRatio ==
    /\ pc = "score_start"
    /\ ratio' = MatchRatio(target, candidate)
    /\ pc' = "score_done"
    /\ UNCHANGED <<target, candidate, parserVars, ocrVars, tierVars, loopVars, site, guiVars>>

ScoreNext == CallMatchRatio

SpecScore == ScoreInit /\ [][ScoreNext]_vars

IsPrefix(p, s) == Len(p) <= Len(s) /\ \A k \in 1..Len(p) : s[k] = p[k]

\* C4: for a non-empty target, match_ratio(target, target + g) = 100 for every
\* garbage string g, the empty one included (match_ratio(target, target) = 100).
C4_SupersetScores100 ==
    (pc = "score_done" /\ target # <<>> /\ IsPrefix(target, candidate))
        => ratio = 10000

C4_Witness ==
    /\ pc = "score_done"
    /\ Len(target) = 2
    /\ IsPrefix(target, candidate)
    /\ Len(candidate) > Len(target)
    /\ ratio = 10000

\* C5: for a non-empty target, match_ratio(target, target[:-1]) < 100.
C5_TruncationBelow100 ==
    (pc = "score_done" /\ target # <<>>
        /\ candidate = Slice(target, 0, Len(target) - 1))
        => ratio < 10000

C5_Witness ==
    /\ pc = "score_done"
    /\ Len(target) = 3
    /\ candidate = Slice(target, 0, 2)
    /\ ratio = 6666

-----------------------------------------------------------------------------
(* OCR candidates: extract_part_numbers_file (web) and extract_part_numbers *)
(* (desktop).  An entry of the OCR result either holds a (txt, score) pair  *)
(* or does not (NoPair).  A candidate carries, next to (txt2, score), the   *)
(* ghost field src: the index in raw of the detection it was made from.     *)

MaxDetections == 3

NoPair == [pair |-> FALSE]
Detection(t, s) == [pair |-> TRUE, txt |-> t, score |-> s]

UpperChar(c) ==
    CASE c = "a" -> "A"
      [] c = "b" -> "B"
      [] c = "c" -> "C"
      [] c = "x" -> "X"
      [] OTHER -> c

IsDigit(c) == c \in {"0", "1", "2", "3", "4", "5", "6", "7", "8", "9"}

\* str.upper()
Upper(s) == [k \in 1..Len(s) |-> UpperChar(s[k])]

\* str.replace(" ", "")
RECURSIVE RemoveSpaces(_)
RemoveSpaces(s) ==
    IF s = <<>> THEN <<>>
    ELSE IF Head(s) = " " THEN RemoveSpaces(Tail(s))
    ELSE <<Head(s)>> \o RemoveSpaces(Tail(s))

\* txt.upper().replace(" ", "")
Normalize(txt) == RemoveSpaces(Upper(txt))

\* A mutant of the filter: the confidence test is strict and the digit test is gone.
KeepsCandidateStrictNoDigit(txt2, score, minlen, thr) ==
    score > thr /\ Len(txt2) >= minlen

\* not (score < conf_threshold), and
\* len(txt2) >= min_length and any(ch.isdigit() for ch in txt2)
KeepsCandidate(txt2, score, minlen, thr) ==
    /\ ~(score < thr)
    /\ Len(txt2) >= minlen
    /\ \E k \in 1..Len(txt2) : IsDigit(txt2[k])

\* The loop that builds candidates: entries without a pair are skipped (web);
\* k is the 0-based index of the first entry of rest in raw.
RECURSIVE CandidatesFrom(_, _, _, _)
CandidatesFrom(rest, k, minlen, thr) ==
    IF rest = <<>> THEN <<>>
    ELSE LET e == Head(rest)
             more == CandidatesFrom(Tail(rest), k + 1, minlen, thr)
         IN  IF ~e.pair THEN more
             ELSE LET txt2 == Normalize(e.txt)
                  IN  IF KeepsCandidate(txt2, e.score, minlen, thr)
                         THEN <<[txt |-> txt2, sc |-> e.score, src |-> k]>> \o more
                         ELSE more

\* A mutant of the sort: a candidate goes before those of equal score.
InsertBeforeEqual(sorted, c) ==
    LET p == Cardinality({k \in 1..Len(sorted) : sorted[k].sc > c.sc})
    IN  SubSeq(sorted, 1, p) \o <<c>> \o SubSeq(sorted, p + 1, Len(sorted))

\* One step of a stable sort on key -score: c goes after every element whose
\* score is greater or equal.
InsertByScore(sorted, c) ==
    LET p == Cardinality({k \in 1..Len(sorted) : sorted[k].sc >= c.sc})
    IN  SubSeq(sorted, 1, p) \o <<c>> \o SubSeq(sorted, p + 1, Len(sorted))

\* sorted(candidates, key=lambda x: -x[1]); Python's sort is stable.
RECURSIVE SortedByScore(_)
SortedByScore(cs) ==
    IF cs = <<>> THEN <<>>
    ELSE InsertByScore(SortedByScore(SubSeq(cs, 1, Len(cs) - 1)), cs[Len(cs)])

\* A mutant of the dedupe: every text counts as not yet seen.
IsNewTextAlways(txt2, seen) == TRUE

\* txt2 not in seen
IsNewText(txt2, seen) == txt2 \notin seen

\* The loop over the sorted candidates with the set seen.
RECURSIVE DedupeFrom(_, _)
DedupeFrom(rest, seen) ==
    IF rest = <<>> THEN <<>>
    ELSE IF IsNewText(Head(rest).txt, seen)
            THEN <<Head(rest)>> \o DedupeFrom(Tail(rest), seen \cup {Head(rest).txt})
            ELSE DedupeFrom(Tail(rest), seen)

\* The list returned for an OCR result r.
PartNumbers(r, minlen, thr) ==
    DedupeFrom(SortedByScore(CandidatesFrom(r, 0, minlen, thr)), {})

\* The (txt2, score) tuples of a returned list, without the ghost field.
Tuples(cs) == [k \in 1..Len(cs) |-> <<cs[k].txt, cs[k].sc>>]

\* The raw texts and confidences the OCR result is drawn from.
OcrTexts ==
    { <<"a", "1">>, <<"A", " ", "1">>, <<"1", "a">>, <<"1">>,
      <<" ", "1", " ">>, <<"a", "a">> }
OcrScores == {30, 90}
Detections == {Detection(t, s) : t \in OcrTexts, s \in OcrScores} \cup {NoPair}

\* [("abc 123", 0.9), ("ABC123", 0.4), ("x", 0.95)]
ExampleDetections ==
    << Detection(<<"a", "b", "c", " ", "1", "2", "3">>, 90),
       Detection(<<"A", "B", "C", "1", "2", "3">>, 40),
       Detection(<<"x">>, 95) >>

OcrInit ==
    /\ pc = "ocr_start"
    /\ site = "none"
    /\ raw \in SeqsOf(Detections, 0, MaxDetections) \cup {ExampleDetections}
    /\ min_length \in {1, 2}
    /\ conf_threshold \in {30, 50}
    /\ out = <<>>
    /\ ParserIdle /\ ScoreIdle /\ TierIdle /\ LoopIdle /\ GuiIdle

\* extract_part_numbers_file(path, min_length, conf_threshold)
ExtractPartNumbersFile ==
    /\ pc = "ocr_start"
    /\ site' = "web"
    /\ out' = PartNumbers(raw, min_length, conf_threshold)
    /\ pc' = "ocr_done"
    /\ UNCHANGED <<raw, min_length, conf_threshold, parserVars, scoreVars,
                   tierVars, loopVars, guiVars>>

\* extract_part_numbers(image_path, min_length, conf_threshold): [] when
\* cv2.imread gives None (the OCR is not run); unpacking an entry that holds
\* no (txt, score) pair raises.
ExtractPartNumbers ==
    /\ pc = "ocr_start"
    /\ site' = "desktop"
    /\ \E readable \in BOOLEAN :
          IF ~readable
             THEN out' = <<>> /\ pc' = "ocr_unreadable"
             ELSE IF \E k \in 1..Len(raw) : ~raw[k].pair
                     THEN out' = out /\ pc' = "ocr_raised"
                     ELSE /\ out' = PartNumbers(raw, min_length, conf_threshold)
                          /\ pc' = "ocr_done"
    /\ UNCHANGED <<raw, min_length, conf_threshold, parserVars, scoreVars,
                   tierVars, loopVars, guiVars>>

OcrNext == ExtractPartNumbersFile \/ ExtractPartNumbers

SpecOcr == OcrInit /\ [][OcrNext]_vars

\* The detection at index k of raw passes the filters as the claims state them.
PassesFilters(k) ==
    /\ raw[k].pair
    /\ raw[k].score >= conf_threshold
    /\ Len(Normalize(raw[k].txt)) >= min_length
    /\ \E d \in 1..Len(Normalize(raw[k].txt)) : IsDigit(Normalize(raw[k].txt)[d])

IsNormalForm(t) ==
    \A k \in 1..Len(t) : t[k] # " " /\ t[k] \notin {"a", "b", "c", "x"}

\* C2: the list returned holds no two entries with the same normalized text,
\* and a retained entry's confidence is at least that of every detection that
\* normalizes to the same text and passed the filters.
C2_UniqueTextsHighestConfidence ==
    pc = "ocr_done" =>
        /\ \A p, q \in 1..Len(out) : p # q => out[p].txt # out[q].txt
        /\ \A k \in 1..Len(raw) : \A p \in 1..Len(out) :
              (PassesFilters(k) /\ Normalize(raw[k].txt) = out[p].txt)
                  => out[p].sc >= raw[k].score

C2_Witness ==
    /\ pc = "ocr_done"
    /\ Len(out) = 1
    /\ \E j, k \in 1..Len(raw) :
          /\ PassesFilters(j) /\ PassesFilters(k)
          /\ Normalize(raw[j].txt) = Normalize(raw[k].txt)
          /\ j < k
          /\ raw[j].score < raw[k].score
          /\ out[1].src = k - 1

\* C3: a detection contributes a candidate exactly when it passes the three
\* filters; every text returned is in normalized form and comes, with its
\* confidence, from a detection that passed; and the example detections with
\* min_length 2 and threshold 0.5 give exactly [("ABC123", 0.9)].
C3_FilterAndNormalize ==
    pc = "ocr_done" =>
        /\ \A k \in 1..Len(raw) :
              PassesFilters(k) =>
                  \E p \in 1..Len(out) : out[p].txt = Normalize(raw[k].txt)
        /\ \A p \in 1..Len(out) :
              /\ out[p].src + 1 \in 1..Len(raw)
              /\ PassesFilters(out[p].src + 1)
              /\ out[p].txt = Normalize(raw[out[p].src + 1].txt)
              /\ out[p].sc = raw[out[p].src + 1].score
              /\ IsNormalForm(out[p].txt)
        /\ (raw = ExampleDetections /\ min_length = 2 /\ conf_threshold = 50)
              => Tuples(out) = << << <<"A", "B", "C", "1", "2", "3">>, 90 >> >>

C3_Witness ==
    /\ pc = "ocr_done"
    /\ raw = ExampleDetections /\ min_length = 2 /\ conf_threshold = 50
    /\ Len(out) = 1

\* C9: the list returned is ordered by non-increasing confidence; entries of
\* equal confidence keep their input order; and of the detections with an
\* entry's text and confidence that passed, the retained one came first.
C9_DescendingStable ==
    pc = "ocr_done" =>
        /\ \A p, q \in 1..Len(out) :
              p < q => /\ out[p].sc >= out[q].sc
                       /\ (out[p].sc = out[q].sc => out[p].src < out[q].src)
        /\ \A p \in 1..Len(out) : \A k \in 1..Len(raw) :
              (PassesFilters(k) /\ Normalize(raw[k].txt) = out[p].txt
                  /\ raw[k].score = out[p].sc)
                  => out[p].src <= k - 1

C9_Witness ==
    /\ pc = "ocr_done"
    /\ Len(out) = 2
    /\ out[1].sc = out[2].sc
    /\ \E j, k \in 1..Len(raw) :
          /\ j < k
          /\ PassesFilters(j) /\ PassesFilters(k)
          /\ raw[j].score = raw[k].score
          /\ Normalize(raw[j].txt) = Normalize(raw[k].txt)
          /\ raw[j].txt # raw[k].txt
          /\ out[1].src = j - 1

-----------------------------------------------------------------------------
(* The tier of a best score: the colours chosen in the web photo loop and   *)
(* in MatcherGUI._process_next_slot.  EXACT is the green background, STRONG *)
(* the white one, WEAK the red one.                                         *)

HighThresholdWeb == 85
HighThresholdDesktop == 80

Green == "#28a745"
White == "white"
Red   == "#dc3545"

\* A mutant of the web classification: the threshold itself is not STRONG.
TierWebStrict(b) ==
    IF b = 10000 THEN Green
    ELSE IF b > HighThresholdWeb * 100 THEN White
    ELSE Red

\* if best == 100 ... elif best >= 85 ... else ...
TierWeb(b) ==
    IF b = 10000 THEN Green
    ELSE IF b >= HighThresholdWeb * 100 THEN White
    ELSE Red

\* round(best_pct, 1): the nearest multiple of 0.1.  Where the score lies
\* halfway between two of them the result depends on the float's binary
\* value: either neighbour.
RoundedTo1(b) ==
    LET r == b % 10
    IN  IF r < 5 THEN {b - r}
        ELSE IF r > 5 THEN {b - r + 10}
        ELSE {b - r, b - r + 10}

\* A mutant of the desktop classification: the threshold itself is not STRONG.
TierDesktopStrict(b) ==
    IF b >= 10000 THEN Green
    ELSE IF b > HighThresholdDesktop * 100 THEN White
    ELSE Red

\* if best_pct >= 100.0 ... elif best_pct >= 80.0 ... else ...
TierDesktop(b) ==
    IF b >= 10000 THEN Green
    ELSE IF b >= HighThresholdDesktop * 100 THEN White
    ELSE Red

TierInit ==
    /\ pc = "tier_start"
    /\ site \in {"web", "desktop"}
    /\ best \in 0..10000
    /\ rounded = 0
    /\ tier = "none"
    /\ ParserIdle /\ OcrIdle /\ ScoreIdle /\ LoopIdle /\ GuiIdle

\* src/app.py: the score is classified as it is.
ClassifyWeb ==
    /\ pc = "tier_start" /\ site = "web"
    /\ rounded' = best
    /\ tier' = TierWeb(best)
    /\ pc' = "tier_done"
    /\ UNCHANGED <<best, site, parserVars, ocrVars, scoreVars, loopVars, guiVars>>

\* src/debug.py: best_pct = round(best_pct, 1), then the tier of the rounded score.
ClassifyDesktop ==
    /\ pc = "tier_start" /\ site = "desktop"
    /\ \E r \in RoundedTo1(best) :
          /\ rounded' = r
          /\ tier' = TierDesktop(r)
    /\ pc' = "tier_done"
    /\ UNCHANGED <<best, site, parserVars, ocrVars, scoreVars, loopVars, guiVars>>

TierNext == ClassifyWeb \/ ClassifyDesktop

SpecTier == TierInit /\ [][TierNext]_vars

HighThreshold(s) == IF s = "web" THEN HighThresholdWeb ELSE HighThresholdDesktop

\* C6 as stated: at each call site the tier of a best score is EXACT when the
\* score equals 100, STRONG when it is at least the site's threshold and not
\* 100, and WEAK otherwise.
C6_TierOfBestScore ==
    pc = "tier_done" =>
        tier = (IF best = 10000 THEN Green
                ELSE IF best >= HighThreshold(site) * 100 THEN White
                ELSE Red)

\* C6 amended: the web site classifies the best score itself; the desktop
\* site classifies the best score rounded to one decimal place, so a score
\* above threshold - 0.05 is STRONG and one above 99.95 is EXACT there.  At
\* both sites 100 is EXACT, the threshold is STRONG and threshold - 0.1 is WEAK.
C6_TierOfRoundedScore ==
    pc = "tier_done" =>
        /\ site = "web" =>
              tier = (IF best = 10000 THEN Green
                      ELSE IF best >= 8500 THEN White
                      ELSE Red)
        /\ site = "desktop" =>
              /\ rounded % 10 = 0
              /\ best - rounded \in -5..5
              /\ tier = (IF rounded = 10000 THEN Green
                         ELSE IF rounded >= 8000 THEN White
                         ELSE Red)
              /\ best > 9995 => tier = Green
              /\ (best > 7995 /\ best < 9995) => tier = White
              /\ best < 7995 => tier = Red
        /\ best = 10000 => tier = Green
        /\ best = HighThreshold(site) * 100 => tier = White
        /\ best = HighThreshold(site) * 100 - 10 => tier = Red

C6_Witness ==
    /\ pc = "tier_done"
    /\ site = "desktop"
    /\ best = 7996
    /\ rounded = 8000
    /\ tier = White

\* The tier the web classifier gives the best score of this state.
WebTierOfBest == IF site = "web" THEN tier ELSE TierWeb(best)

\* The pairs (rounded score, tier) the desktop classifier can give it.
DesktopOutcomesOfBest ==
    IF site = "desktop"
       THEN {<<rounded, tier>>}
       ELSE {<<r, TierDesktop(r)>> : r \in RoundedTo1(best)}

\* C12 as stated: the web and the desktop classifier give a best score the
\* same tier, except the scores s with 80 <= s < 85, which the desktop
\* classifies STRONG and the web WEAK.
C12_SameTierExcept80To85 ==
    pc = "tier_done" =>
        \A o \in DesktopOutcomesOfBest :
            IF best >= 8000 /\ best < 8500
               THEN o[2] = White /\ WebTierOfBest = Red
               ELSE o[2] = WebTierOfBest

\* C12 amended: with r the score rounded to one decimal place, which is what
\* the desktop classifies, the two classifiers give a score s the same tier
\* except when r >= 80 and s < 85 (desktop STRONG, web WEAK) and when
\* r = 100 and s < 100 (desktop EXACT, web STRONG).
C12_SameTierExceptRounded ==
    pc = "tier_done" =>
        \A o \in DesktopOutcomesOfBest :
            IF o[1] >= 10000 /\ best < 10000
               THEN o[2] = Green /\ WebTierOfBest = White
               ELSE IF o[1] >= 8000 /\ best < 8500
                       THEN o[2] = White /\ WebTierOfBest = Red
                       ELSE o[2] = WebTierOfBest

C12_Witness ==
    /\ pc = "tier_done"
    /\ site = "desktop"
    /\ best = 8200
    /\ tier = White
    /\ WebTierOfBest = Red

-----------------------------------------------------------------------------
(* The photo loop: the for loop over imgs of src/app.py and the chain of    *)
(* _process_next_slot callbacks of src/debug.py, one step per photo.  What  *)
(* the OCR does with a photo is drawn when the photo is reached: it raises, *)
(* or it returns detections.  Both editions call the extraction with its    *)
(* default parameters.                                                      *)

MaxPhotos == 2

DefaultMinLength == 2
DefaultConfThreshold == 30

\* The target MPNs of a batch (never empty: `if imgs and mpn`, and the check
\* of chosen_part in load_photos).
LoopTargets == { <<"A", "1">>, <<"1", "A", "B">>, <<"1">> }

\* What ocr_model.ocr does with one photo.
OcrOutcomes ==
    {[raises |-> TRUE, dets |-> <<>>]} \cup
    {[raises |-> FALSE, dets |-> d] :
        d \in SeqsOf({Detection(t, s) : t \in OcrTexts, s \in OcrScores}, 0, 2)}

\* A mutant of the best-score loop: the last ratio is kept.
KeepLast(b, r) == r

\* best = max(best, match_ratio(mpn, txt))
KeepBest(b, r) == IF r > b THEN r ELSE b

\* for txt, _ in <candidates>: best = max(best, match_ratio(mpn, txt)),
\* starting from b.
RECURSIVE BestFrom(_, _, _)
BestFrom(b, t, rest) ==
    IF rest = <<>> THEN b
    ELSE BestFrom(KeepBest(b, MatchRatio(t, Head(rest).txt)), t, Tail(rest))

LoopInit ==
    /\ pc = "loop"
    /\ site \in {"web", "desktop"}
    /\ mpn \in LoopTargets
    /\ n_imgs \in 1..MaxPhotos
    /\ i_img = 0
    /\ results = <<>>
    /\ ocr_failed = <<>>
    /\ cands = <<>>
    /\ ParserIdle /\ OcrIdle /\ ScoreIdle /\ TierIdle /\ GuiIdle

\* src/app.py, one iteration of `for img in imgs`.  Nothing catches what
\* extract_part_numbers_file raises: the script run ends there, with no
\* result for this photo nor for those after it.
WebPhotoStep ==
    /\ pc = "loop" /\ site = "web" /\ i_img < n_imgs
    /\ \E oc \in OcrOutcomes :
          IF oc.raises
             THEN /\ ocr_failed' = Append(ocr_failed, TRUE)
                  /\ pc' = "crashed"
                  /\ UNCHANGED <<i_img, results, cands, tierVars>>
             ELSE LET cs == PartNumbers(oc.dets, DefaultMinLength, DefaultConfThreshold)
                      b  == BestFrom(0, mpn, cs)
                  IN  /\ ocr_failed' = Append(ocr_failed, FALSE)
                      /\ cands' = cs
                      /\ best' = b
                      /\ rounded' = b
                      /\ tier' = TierWeb(b)
                      /\ results' = Append(results, [score |-> b, bg |-> TierWeb(b)])
                      /\ i_img' = i_img + 1
                      /\ pc' = IF i_img + 1 < n_imgs THEN "loop" ELSE "done"
    /\ UNCHANGED <<site, mpn, n_imgs, parserVars, ocrVars, scoreVars, guiVars>>

\* src/debug.py, _process_next_slot for slot i_img: the try/except around
\* the extraction turns an OCR failure into best_pct = 0.0; an image that
\* cv2.imread cannot read has no candidates.
ProcessNextSlot ==
    /\ pc = "loop" /\ site = "desktop" /\ i_img < n_imgs
    /\ \E oc \in OcrOutcomes, readable \in BOOLEAN :
          LET raised == readable /\ oc.raises
              cs == IF readable /\ ~oc.raises
                       THEN PartNumbers(oc.dets, DefaultMinLength, DefaultConfThreshold)
                       ELSE <<>>
              b  == IF raised THEN 0 ELSE BestFrom(0, mpn, cs)
          IN  /\ ocr_failed' = Append(ocr_failed, raised)
              /\ cands' = cs
              /\ best' = b
              /\ \E r \in RoundedTo1(b) :
                    /\ rounded' = r
                    /\ tier' = TierDesktop(r)
                    /\ results' = Append(results, [score |-> r, bg |-> TierDesktop(r)])
    /\ i_img' = i_img + 1
    /\ pc' = IF i_img + 1 < n_imgs THEN "loop" ELSE "done"
    /\ UNCHANGED <<site, mpn, n_imgs, parserVars, ocrVars, scoreVars, guiVars>>

LoopNext == WebPhotoStep \/ ProcessNextSlot

SpecLoop == LoopInit /\ [][LoopNext]_vars

RatiosOfCands == {MatchRatio(mpn, cands[k].txt) : k \in 1..Len(cands)}

\* C10: the best score of an image is the maximum of match_ratio(target, text)
\* over its candidates, 0 when it has none, and lies in [0, 100].
C10_BestIsMaxRatio ==
    (pc \in {"loop", "done"} /\ i_img > 0 /\ ~ocr_failed[i_img]) =>
        /\ best \in RatiosOfCands \cup {0}
        /\ \A r \in RatiosOfCands : best >= r
        /\ cands = <<>> => best = 0
        /\ best >= 0 /\ best <= 10000

C10_Witness ==
    /\ pc = "done" /\ site = "web"
    /\ Len(cands) = 2
    /\ MatchRatio(mpn, cands[1].txt) = 10000
    /\ MatchRatio(mpn, cands[2].txt) = 5000
    /\ best = 10000

\* C8: when the OCR raises on one photo of a batch, that photo gets a
\* zero-candidate result (score 0, WEAK) and the photos after it are still
\* handled: the batch goes on to its end.
C8_OcrFailureIsolated ==
    /\ pc \in {"loop", "done"}
    /\ Len(results) = Len(ocr_failed)
    /\ \A k \in 1..Len(results) :
          ocr_failed[k] => results[k].score = 0 /\ results[k].bg = Red

-----------------------------------------------------------------------------
(* The invoice parser: extract_all_invoice_info_bytes (web) and             *)
(* extract_all_invoice_info (desktop).  The text is a sequence of lines     *)
(* (text.splitlines(); the empty sequence is the empty text) and a line is  *)
(* a sequence of tokens [k, v], one per piece of text a regex of the parser *)
(* can match:                                                               *)
(*   ref   v is a reference identifier, matched by \b\d{6}-\d+(?:\.\d+)?\b  *)
(*   emb   a word such as X556677-1: it holds the identifier v, but the     *)
(*         regex does not match in it (no word boundary before the digits)  *)
(*   mpn   "Manuf. Part#: v"     mf    "Manufacturer: v"                    *)
(*   cust  "Cust. Part#: v"      qty   "v PCS"                              *)
(*   date  "15-Jan-2024 v"       po    "PO# v"        so   v is NNNNNN/NN   *)
(* A label token stands for the label and the value after it on the same    *)
(* line.  The ship-to block, a document-level text copied into every        *)
(* record, is left out.                                                     *)

WindowRadius == 10

MaxDocLines == 2
MaxSparseLines == 22

Tok(kind, val) == [k |-> kind, v |-> val]

\* small in big, for the reference identifiers of the documents.
RefContains(big, small) ==
    \/ big = small
    \/ big = "556677-12" /\ small = "556677-1"

\* ref in L
LineContains(L, ref) ==
    \E t \in 1..Len(L) : L[t].k \in {"ref", "emb"} /\ RefContains(L[t].v, ref)

\* The values of the tokens of kind `kind` of a line, in order.
RECURSIVE ValuesInLine(_, _)
ValuesInLine(L, kind) ==
    IF L = <<>> THEN <<>>
    ELSE (IF Head(L).k = kind THEN <<Head(L).v>> ELSE <<>>)
         \o ValuesInLine(Tail(L), kind)

\* re.findall / re.search over a text: the values of the tokens of a kind in
\* reading order.
RECURSIVE ValuesInText(_, _)
ValuesInText(lines, kind) ==
    IF lines = <<>> THEN <<>>
    ELSE ValuesInLine(Head(lines), kind) \o ValuesInText(Tail(lines), kind)

\* re.search with ^label and re.M: the values of the lines that begin with a
\* token of the kind, in order.
RECURSIVE ValuesAtLineStart(_, _)
ValuesAtLineStart(lines, kind) ==
    IF lines = <<>> THEN <<>>
    ELSE (IF Head(lines) # <<>> /\ Head(lines)[1].k = kind
             THEN <<Head(lines)[1].v>> ELSE <<>>)
         \o ValuesAtLineStart(Tail(lines), kind)

\* re.search with ^Cust\. Part#\s*:\s*(\S+)$: the value must end its line.
RECURSIVE CustValues(_)
CustValues(lines) ==
    IF lines = <<>> THEN <<>>
    ELSE (IF Len(Head(lines)) = 1 /\ Head(lines)[1].k = "cust"
             THEN <<Head(lines)[1].v>> ELSE <<>>)
         \o CustValues(Tail(lines))

\* (re.search(...) or ["", ""])[1]
FirstOr(vals, default) == IF vals = <<>> THEN default ELSE vals[1]

\* A mutant of parse_po_from_date_line: the PO# label is searched first.
ParsePoLabelFirst(lines) ==
    IF ValuesInText(lines, "po") # <<>>
       THEN ValuesInText(lines, "po")[1]
       ELSE FirstOr(ValuesAtLineStart(lines, "date"), "")

\* parse_po_from_date_line
ParsePoFromDateLine(lines) ==
    IF ValuesAtLineStart(lines, "date") # <<>>
       THEN ValuesAtLineStart(lines, "date")[1]
       ELSE FirstOr(ValuesInText(lines, "po"), "")

\* A mutant of the dedupe of raw_refs: every match counts as new.
IsNewRefAlways(r, unique_refs) == TRUE

\* r not in unique_refs
IsNewRef(r, unique_refs) == \A k \in 1..Len(unique_refs) : unique_refs[k] # r

\* for r in raw_refs: if r not in unique_refs: unique_refs.append(r)
RECURSIVE UniqueRefsFrom(_, _)
UniqueRefsFrom(raw_refs, unique_refs) ==
    IF raw_refs = <<>> THEN unique_refs
    ELSE UniqueRefsFrom(Tail(raw_refs),
                        IF IsNewRef(Head(raw_refs), unique_refs)
                           THEN Append(unique_refs, Head(raw_refs))
                           ELSE unique_refs)

\* next((i for i, L in enumerate(lines) if ref in L), None); None is -1.
FirstLineWith(lines, ref) ==
    IF \E i \in 1..Len(lines) : LineContains(lines[i], ref)
       THEN (CHOOSE i \in 1..Len(lines) :
                /\ LineContains(lines[i], ref)
                /\ \A j \in 1..(i - 1) : ~LineContains(lines[j], ref)) - 1
       ELSE -1

\* lines[max(0, idx-10): idx+10]
Window(lines, idx) ==
    Slice(lines, Max2(0, idx - WindowRadius), idx + WindowRadius)

\* The record of one reference, from its window and the document-level fields.
InvoiceRecord(ref, window, po_number, so) ==
    [ RefNumber    |-> ref,
      MPN          |-> FirstOr(ValuesAtLineStart(window, "mpn"), ""),
      Manufacturer |-> FirstOr(ValuesAtLineStart(window, "mf"), ""),
      Quantity     |-> FirstOr(ValuesInText(window, "qty"), ""),
      SONumber     |-> so,
      PONumber     |-> po_number,
      CustPart     |-> FirstOr(CustValues(window), "NA") ]

\* for ref in unique_refs: ... invoices.append({...})
RECURSIVE InvoicesFrom(_, _, _, _)
InvoicesFrom(refs, lines, po_number, so) ==
    IF refs = <<>> THEN <<>>
    ELSE LET idx == FirstLineWith(lines, Head(refs))
             more == InvoicesFrom(Tail(refs), lines, po_number, so)
         IN  IF idx = -1 THEN more
             ELSE <<InvoiceRecord(Head(refs), Window(lines, idx), po_number, so)>> \o more

\* extract_all_invoice_info_bytes / extract_all_invoice_info on a text.
ExtractAllInvoiceInfo(lines) ==
    IF lines = <<>> THEN <<>>
    ELSE InvoicesFrom(UniqueRefsFrom(ValuesInText(lines, "ref"), <<>>), lines,
                      ParsePoFromDateLine(lines),
                      FirstOr(ValuesInText(lines, "so"), ""))

\* Short texts dense in reference identifiers.
DenseTokens ==
    { Tok("ref", "556677-1"), Tok("ref", "556677-12"), Tok("ref", "778899-2"),
      Tok("emb", "556677-1") }
DenseTexts == SeqsOf(SeqsOf(DenseTokens, 0, 2), 0, MaxDocLines)

\* Long texts of MaxSparseLines lines with one reference line and one labelled
\* line, the other lines empty.
FieldTokens ==
    { Tok("mpn", "ABC-123"), Tok("mf", "Acme"), Tok("cust", "C-9"),
      Tok("qty", "4,500") }
SparseText(r, q, lab) ==
    [i \in 1..MaxSparseLines |->
        IF i = r THEN <<Tok("ref", "556677-1")>>
        ELSE IF i = q THEN <<lab>>
        ELSE <<>>]
SparseTexts ==
    {SparseText(r, q, lab) :
        r \in 1..MaxSparseLines, q \in 1..MaxSparseLines, lab \in FieldTokens}

ParseInit ==
    /\ pc = "parse_start"
    /\ site = "none"
    /\ text \in DenseTexts \cup SparseTexts
    /\ invoices = <<>>
    /\ po = ""
    /\ OcrIdle /\ ScoreIdle /\ TierIdle /\ LoopIdle /\ GuiIdle

\* src/app.py: extract_all_invoice_info_bytes
ExtractAllInvoiceInfoBytes ==
    /\ pc = "parse_start"
    /\ site' = "web"
    /\ invoices' = ExtractAllInvoiceInfo(text)
    /\ pc' = "parse_done"
    /\ UNCHANGED <<text, po, ocrVars, scoreVars, tierVars, loopVars, guiVars>>

\* src/debug.py: extract_all_invoice_info
ExtractAllInvoiceInfoPath ==
    /\ pc = "parse_start"
    /\ site' = "desktop"
    /\ invoices' = ExtractAllInvoiceInfo(text)
    /\ pc' = "parse_done"
    /\ UNCHANGED <<text, po, ocrVars, scoreVars, tierVars, loopVars, guiVars>>

ParseNext == ExtractAllInvoiceInfoBytes \/ ExtractAllInvoiceInfoPath

SpecParse == ParseInit /\ [][ParseNext]_vars

\* The places (line, token) at which the reference regex matches ref.
MatchPlaces(ref) ==
    {<<i, t>> \in (1..Len(text)) \X (1..4) :
        t <= Len(text[i]) /\ text[i][t] = Tok("ref", ref)}

Before(p, q) == p[1] < q[1] \/ (p[1] = q[1] /\ p[2] < q[2])

FirstMatchPlace(ref) ==
    CHOOSE p \in MatchPlaces(ref) : \A q \in MatchPlaces(ref) : p = q \/ Before(p, q)

\* C1: the records returned have pairwise distinct RefNumber values, each a
\* reference identifier matched in the text, and they are in the order of the
\* first match of each identifier in the text.
C1_UniqueRefsInFirstSeenOrder ==
    pc = "parse_done" =>
        /\ \A p, q \in 1..Len(invoices) :
              p # q => invoices[p].RefNumber # invoices[q].RefNumber
        /\ \A p \in 1..Len(invoices) : MatchPlaces(invoices[p].RefNumber) # {}
        /\ \A p, q \in 1..Len(invoices) :
              p < q => Before(FirstMatchPlace(invoices[p].RefNumber),
                              FirstMatchPlace(invoices[q].RefNumber))

C1_Witness ==
    /\ pc = "parse_done"
    /\ Len(invoices) = 2
    /\ invoices[1].RefNumber = "778899-2"
    /\ invoices[2].RefNumber = "556677-1"
    /\ Cardinality(MatchPlaces("778899-2")) = 2
    /\ Cardinality(MatchPlaces("556677-1")) = 2

\* The lines idx-10 .. idx+10 of the text, clipped at its start and end, for
\* the first line idx (0-based) that contains ref.
LinesTenAround(ref) ==
    LET idx == FirstLineWith(text, ref)
    IN  Slice(text, Max2(0, idx - 10), idx + 11)

\* C7: the fields of a record are extracted from the lines idx-10 through
\* idx+10 inclusive of the first line idx containing its reference, so that
\* a label exactly 10 lines after that line is extracted into the record.
C7_WindowTenBeforeTenAfter ==
    pc = "parse_done" =>
        \A p \in 1..Len(invoices) :
            LET w == LinesTenAround(invoices[p].RefNumber)
            IN  /\ invoices[p].MPN = FirstOr(ValuesAtLineStart(w, "mpn"), "")
                /\ invoices[p].Manufacturer = FirstOr(ValuesAtLineStart(w, "mf"), "")
                /\ invoices[p].Quantity = FirstOr(ValuesInText(w, "qty"), "")
                /\ invoices[p].CustPart = FirstOr(CustValues(w), "NA")

-----------------------------------------------------------------------------
(* parse_po_from_date_line on its own.  A date token stands for a date at   *)
(* that place followed by the token v; the line "15-Jan-2024" alone, a date *)
(* with no token after it, is the token datebare, which the date regex does *)
(* not match.                                                               *)

PoLines ==
    { <<>>,
      <<Tok("word", "x")>>,
      <<Tok("date", "PO-1")>>,
      <<Tok("date", "PO-2"), Tok("po", "PO-3")>>,
      <<Tok("datebare", "")>>,
      <<Tok("po", "PO-3")>>,
      <<Tok("po", "PO-4"), Tok("po", "PO-3")>>,
      <<Tok("word", "x"), Tok("date", "PO-1")>>,
      <<Tok("word", "x"), Tok("po", "PO-4")>> }

PoTexts == SeqsOf(PoLines, 0, MaxDocLines + 1)

PoInit ==
    /\ pc = "po_start"
    /\ site = "none"
    /\ text \in PoTexts
    /\ invoices = <<>>
    /\ po = ""
    /\ OcrIdle /\ ScoreIdle /\ TierIdle /\ LoopIdle /\ GuiIdle

\* src/app.py: po = parse_po_from_date_line(text)
CallParsePoWeb ==
    /\ pc = "po_start"
    /\ site' = "web"
    /\ po' = ParsePoFromDateLine(text)
    /\ pc' = "po_done"
    /\ UNCHANGED <<text, invoices, ocrVars, scoreVars, tierVars, loopVars, guiVars>>

\* src/debug.py: po = parse_po_from_date_line(full_text)
CallParsePoDesktop ==
    /\ pc = "po_start"
    /\ site' = "desktop"
    /\ po' = ParsePoFromDateLine(text)
    /\ pc' = "po_done"
    /\ UNCHANGED <<text, invoices, ocrVars, scoreVars, tierVars, loopVars, guiVars>>

PoNext == CallParsePoWeb \/ CallParsePoDesktop

SpecPo == PoInit /\ [][PoNext]_vars

\* The lines the date regex matches: they begin with a date followed by a token.
DateLineIndexes == {i \in 1..Len(text) : text[i] # <<>> /\ text[i][1].k = "date"}

\* The places (line, token) of the PO# labels.
PoLabelPlaces ==
    {<<i, t>> \in (1..Len(text)) \X (1..2) : t <= Len(text[i]) /\ text[i][t].k = "po"}

\* C11: the PO number is the token after the date on the first line matching
\* the date pattern; only when no line matches is it the value of the first
\* PO# label of the text, so a date line wins over a label that comes earlier;
\* with neither it is the empty string.
C11_DateLineBeforePoLabel ==
    pc = "po_done" =>
        IF DateLineIndexes # {}
           THEN \E i \in DateLineIndexes :
                   /\ \A j \in DateLineIndexes : i <= j
                   /\ po = text[i][1].v
           ELSE IF PoLabelPlaces # {}
                   THEN \E p \in PoLabelPlaces :
                           /\ \A q \in PoLabelPlaces : p = q \/ Before(p, q)
                           /\ po = text[p[1]][p[2]].v
                   ELSE po = ""

C11_Witness ==
    /\ pc = "po_done"
    /\ Len(text) = 3
    /\ text[1] = <<Tok("po", "PO-4"), Tok("po", "PO-3")>>
    /\ text[2] = <<Tok("datebare", "")>>
    /\ text[3] = <<Tok("date", "PO-1")>>
    /\ po = "PO-1"

-----------------------------------------------------------------------------
(* The desktop window, class MatcherGUI of src/debug.py: the handlers of    *)
(* the buttons, of the combobox and of the entry, and the _process_next_slot *)
(* callbacks scheduled with after().  Tk runs one handler or callback at a  *)
(* time; between two of them any other may run.  A callback that runs while *)
(* a file dialog of a handler is open changes nothing the handler has read  *)
(* before the dialog, so a handler is one step.  An exception raised in a   *)
(* callback is reported by Tk and the event loop goes on: the assignments   *)
(* made before the raise stay.  What the callback computes for a photo is   *)
(* the photo loop above; here a processed slot is only marked as shown.     *)

MAX_PHOTOS == 60

MaxGuiPhotos == 2
MaxPending == 2

None == <<>>

\* The texts of the PDF files the user can choose.
GuiFileText(path) ==
    IF path = "a.pdf"
       THEN << <<Tok("ref", "556677-1")>>, <<Tok("mpn", "ABC-123")>> >>
    ELSE IF path = "b.pdf"
       THEN << <<Tok("ref", "778899-2")>>, <<Tok("mpn", "XYZ-9")>>,
               <<Tok("ref", "991100-3")>> >>
    ELSE << <<Tok("word", "x")>> >>

\* What askopenfilename returns: "" when the dialog is cancelled.
GuiPaths == {"", "a.pdf", "b.pdf", "blank.pdf"}

\* extract_all_invoice_info(path) for each of these files.
GuiInvoiceLines ==
    [path \in GuiPaths \ {""} |-> ExtractAllInvoiceInfo(GuiFileText(path))]

\* What the user can leave in the manual MPN entry.
ManualMpns == {"", "ZZ-1"}

\* How many paths askopenfilenames returns: 0 when the dialog is cancelled.
PhotoCounts == (0..MaxGuiPhotos) \cup {MAX_PHOTOS, MAX_PHOTOS + 1}

\* manual_mpn_var.get().strip() or (selected_line or {}).get("Manufacturer Part Number", "")
ChosenPart ==
    IF manual_mpn_var # "" THEN manual_mpn_var
    ELSE IF selected_line = None THEN ""
    ELSE selected_line[1].MPN

GuiInit ==
    /\ pc = "gui"
    /\ site = "desktop"
    /\ GuiIdle
    /\ ParserIdle /\ OcrIdle /\ ScoreIdle /\ TierIdle /\ LoopIdle

notGui == <<pc, site, parserVars, ocrVars, scoreVars, tierVars, loopVars>>

\* The user edits the manual MPN entry (textvariable=self.manual_mpn_var).
EditManualMpn ==
    /\ pc = "gui"
    /\ \E m \in ManualMpns :
          /\ m # manual_mpn_var
          /\ manual_mpn_var' = m
    /\ since_accept' = "acted"
    /\ UNCHANGED <<invoice_lines, selected_line, combo_values, combo_state,
                   photo_paths, processing_index, processing_overlay,
                   orphan_overlay, pending, shown, target_mpn, callback_error,
                   handled, runs, notGui>>

\* load_invoice
LoadInvoice ==
    /\ pc = "gui"
    /\ \E path \in GuiPaths :
          IF path = ""
             THEN UNCHANGED guiVars
             ELSE LET lines == GuiInvoiceLines[path]
                  IN  /\ invoice_lines' = lines
                      /\ since_accept' = "acted"
                      /\ IF lines = <<>>
                            THEN UNCHANGED <<selected_line, combo_values, combo_state,
                                             manual_mpn_var, photo_paths, shown>>
                            ELSE /\ combo_values' = Len(lines)
                                 /\ combo_state' = "readonly"
                                 /\ selected_line' =
                                       IF Len(lines) = 1 THEN <<lines[1]>>
                                       ELSE selected_line
                                 /\ manual_mpn_var' = ""
                                 /\ photo_paths' = <<>>
                                 /\ shown' = {}
                      /\ UNCHANGED <<processing_index, processing_overlay,
                                     orphan_overlay, pending, target_mpn,
                                     callback_error, handled, runs>>
    /\ UNCHANGED notGui

\* on_line_selected, bound to <<ComboboxSelected>>: the user picks option idx.
OnLineSelected ==
    /\ pc = "gui"
    /\ combo_state = "readonly"
    /\ \E idx \in 0..(combo_values - 1) :
          selected_line' =
              IF 0 <= idx /\ idx < Len(invoice_lines)
                 THEN <<invoice_lines[idx + 1]>>
                 ELSE None
    /\ manual_mpn_var' = ""
    /\ photo_paths' = <<>>
    /\ shown' = {}
    /\ since_accept' = "acted"
    /\ UNCHANGED <<invoice_lines, combo_values, combo_state, processing_index,
                   processing_overlay, orphan_overlay, pending, target_mpn,
                   callback_error, handled, runs, notGui>>

\* load_photos, with _start_processing_slots when the photos are accepted.
LoadPhotos ==
    /\ pc = "gui"
    /\ \E n \in PhotoCounts :
          IF ChosenPart = "" \/ n = 0 \/ n > MAX_PHOTOS
             THEN UNCHANGED guiVars
             ELSE /\ pending < MaxPending
                  /\ photo_paths' = [j \in 1..n |-> j]
                  /\ shown' = {}
                  /\ orphan_overlay' = (orphan_overlay \/ processing_overlay = "shown")
                  /\ processing_overlay' = "shown"
                  /\ processing_index' = 0
                  /\ pending' = pending + 1
                  /\ handled' = <<>>
                  /\ runs' = 0
                  /\ since_accept' = IF pending = 0 THEN "idle" ELSE "busy"
                  /\ UNCHANGED <<invoice_lines, selected_line, combo_values,
                                 combo_state, manual_mpn_var, target_mpn,
                                 callback_error>>
    /\ UNCHANGED notGui

\* clear_all
ClearAll ==
    /\ pc = "gui"
    /\ invoice_lines' = <<>>
    /\ selected_line' = None
    /\ combo_values' = 0
    /\ combo_state' = "disabled"
    /\ manual_mpn_var' = ""
    /\ photo_paths' = <<>>
    /\ shown' = {}
    /\ since_accept' = "acted"
    /\ UNCHANGED <<processing_index, processing_overlay, orphan_overlay, pending,
                   target_mpn, callback_error, handled, runs, notGui>>

\* One scheduled _process_next_slot callback runs.
RunProcessNextSlot ==
    /\ pc = "gui"
    /\ pending > 0
    /\ runs' = runs + 1
    /\ LET i == processing_index
           total == Len(photo_paths)
       IN  IF i >= MAX_PHOTOS \/ i >= total
              THEN \* photo_slots[i] or photo_paths[i] raises IndexError
                   /\ callback_error' = "IndexError"
                   /\ pending' = pending - 1
                   /\ UNCHANGED <<processing_index, processing_overlay, shown,
                                  target_mpn, handled>>
              ELSE /\ target_mpn' = ChosenPart
                   /\ handled' = Append(handled, i)
                   /\ processing_index' = i + 1
                   /\ IF i + 1 < total
                         THEN /\ pending' = pending
                              /\ shown' = shown \cup {i}
                              /\ callback_error' = "none"
                              /\ UNCHANGED processing_overlay
                      ELSE IF processing_overlay = "shown"
                         THEN /\ pending' = pending - 1
                              /\ processing_overlay' = "unset"
                              /\ shown' = (shown \cup {i}) \cap (0..(total - 1))
                              /\ callback_error' = "none"
                         ELSE \* del self._processing_overlay raises AttributeError
                              /\ pending' = pending - 1
                              /\ shown' = shown \cup {i}
                              /\ callback_error' = "AttributeError"
                              /\ UNCHANGED processing_overlay
    /\ UNCHANGED <<invoice_lines, selected_line, combo_values, combo_state,
                   manual_mpn_var, photo_paths, orphan_overlay, since_accept,
                   notGui>>

UserAction == EditManualMpn \/ LoadInvoice \/ OnLineSelected \/ LoadPhotos \/ ClearAll

GuiNext == UserAction \/ RunProcessNextSlot

SpecGui == GuiInit /\ [][GuiNext]_vars

\* after() runs a scheduled callback once the handler in progress has returned.
SpecGuiFair == SpecGui /\ WF_vars(RunProcessNextSlot)

\* C13: after any sequence of load_invoice, on_line_selected, load_photos and
\* clear_all, selected_line is None or one of the records of the current
\* invoice_lines.
C13_SelectedLineOfCurrentInvoice ==
    \/ selected_line = None
    \/ \E k \in 1..Len(invoice_lines) : invoice_lines[k] = selected_line[1]

\* The consequence C13 draws does not hold either: a slot has been matched,
\* with the manual entry empty, against an MPN that no record of the invoice
\* on screen has.
StaleTargetUsed ==
    /\ manual_mpn_var = ""
    /\ invoice_lines # <<>>
    /\ handled # <<>>
    /\ target_mpn # ""
    /\ \A k \in 1..Len(invoice_lines) : invoice_lines[k].MPN # target_mpn

\* C14: whenever a scheduled _process_next_slot callback runs, that is in
\* every state where one is pending, 0 <= _processing_index < len(photo_paths)
\* and the _processing_overlay attribute exists.
C14_CallbackPrecondition ==
    pending > 0 =>
        /\ 0 <= processing_index
        /\ processing_index < Len(photo_paths)
        /\ processing_overlay = "shown"

\* No user action since load_photos last accepted photos.
Quiet == since_accept # "acted"

Done ==
    /\ pending = 0
    /\ runs = Len(photo_paths)
    /\ processing_index = Len(photo_paths)
    /\ processing_overlay = "unset"

\* What has run so far handled the slots 0, 1, ... in that order, and nothing else ran.
InOrderSoFar ==
    /\ runs = Len(handled)
    /\ runs <= Len(photo_paths)
    /\ \A j \in 1..Len(handled) : handled[j] = j - 1
    /\ callback_error = "none" \/ runs = 0

\* C15, what a finite run can refute of it: after load_photos accepted n
\* photos and with no user action since, _process_next_slot has run at most
\* n times, on the slots 0, 1, ... in that order, and once no callback is
\* scheduled it has run n times, the overlay is destroyed and
\* _processing_index is n.
C15_AcceptedPhotosProcessedInOrder ==
    Quiet => /\ InOrderSoFar
             /\ pending = 0 => Done

\* When no callback was pending as load_photos accepted the photos, C15 holds:
\* the safety part ...
C15_FromIdleInOrder ==
    since_accept = "idle" => /\ InOrderSoFar
                             /\ pending = 0 => Done

\* ... and, the scheduled callbacks being run, the end is reached unless the
\* user acts.
C15_FromIdleEventuallyDone ==
    (since_accept = "idle") ~> (since_accept # "idle" \/ Done)

=============================================================================
